---- MODULE Spec2Model ----
(***************************************************************************)
(* Batch execution and context-cache lifecycle of the bulk run panel.      *)
(*                                                                         *)
(* The model follows the JavaScript event loop: one action is the code     *)
(* that runs between two suspension points (a remote call, a timer, a user *)
(* click).  Continuations that are separated only by micro-tasks (an       *)
(* `await` of an already settled promise) are part of the same action.     *)
(* React state is read by a handler as of the render in which the handler  *)
(* was created: a handler started by a click sees the state at the click,  *)
(* and keeps seeing it (props, callbacks) for as long as it runs.          *)
(***************************************************************************)
EXTENDS Integers, Sequences, FiniteSets, TLC

\* ---------------------------------------------------------------- bounds
MaxItems == 2
MaxSessions == 1
MaxRuns == 2
\* sessions created under StorageSpec
MaxStored == 11
MaxResaved == 3
\* invocations of the Economy panel's handleSend
MaxSends == 2
\* questions given to the simple bulk runner
MaxQuestions == 11

\* ------------------------------------------------------ program constants
MAX_RETRIES == 5
StorageLimit == 10
DefaultConcurrency == 1
BackoffBase == 2
BackoffUnit == 2000

NoCache == 0
NoTicket == [item |-> 0, retries |-> 0, tries |-> 0]

\* what parseInt makes of the text of the concurrency input (0 also stands
\* for NaN); min="1" does not keep a typed negative number from onChange
RawConcurrency == {-1, 0, 1, 2}
AnswerTexts == {"ans"}
ErrorTexts == {"err"}
\* components/BulkRunPanel.tsx handleRun
BATCH_SIZE == 5

VARIABLES
  sessions,               \* React state `sessions` (newest first)
  storage,                \* localStorage list of batch sessions
  activeSessionId,        \* React state, 0 = null
  nextSessionId,          \* Date.now() of the next created session
  isRunning,              \* React state
  autoDeleteCache,        \* React state (checkbox)
  concurrency,            \* React state (number input)
  contextFile,            \* React state: a context file is attached
  contextCache,           \* App state: [status, cacheName]
  currentRunningCacheRef, \* ref: cache name of the running batch
  abortControllerRef,     \* ref: index of the run owning the controller, 0 = null
  runs,                   \* closures of the handleIntegratedRun invocations
  remoteCaches,           \* cache handles alive at the provider
  pendingDeletes,         \* DeleteCache calls in flight
  delCalls,               \* per handle: DeleteCache calls issued so far
  sends,                  \* EconomyPanel: closures of the handleSend invocations
  activeCacheIdRef,       \* EconomyPanel ref, 0 = null
  isProcessing,           \* EconomyPanel React state
  cacheDeletes,           \* EconomyPanel: deleteCache calls in flight
  cacheDelCalls,          \* EconomyPanel: per cache, deleteCache calls issued
  results,                \* simple runner: React state `results` (statuses)
  progress,               \* simple runner: React state
  simpleIsRunning,        \* simple runner: React state `isRunning`
  simpleCompletedCount,   \* simple runner: handleRun's local counter
  batchStart,             \* simple runner: handleRun's loop variable i
  outstanding             \* simple runner: Generate calls in flight

economyVars == <<sends, activeCacheIdRef, isProcessing, cacheDeletes,
                 cacheDelCalls>>
simpleVars == <<results, progress, simpleIsRunning, simpleCompletedCount,
                batchStart, outstanding>>
panelVars == <<economyVars, simpleVars>>

vars == <<sessions, storage, activeSessionId, nextSessionId, isRunning,
          autoDeleteCache, concurrency, contextFile, contextCache,
          currentRunningCacheRef, abortControllerRef, runs, remoteCaches,
          pendingDeletes, delCalls, panelVars>>

uiVars == <<autoDeleteCache, concurrency, contextFile>>
sessionVars == <<sessions, storage, activeSessionId, nextSessionId>>
cacheVars == <<contextCache, currentRunningCacheRef, remoteCaches,
               pendingDeletes, delCalls>>

\* ------------------------------------------------------------- sessions

Terminal == {"success", "error"}

\* BatchFileItem created by handleFolderSelect
NewItem == [question |-> "q", status |-> "pending", answer |-> "",
            errorMsg |-> "", tokenUsage |-> FALSE]

\* BatchFileItem created by handleRestoreFiles from a file whose answer
\* section is `answer` (possibly empty)
RestoredItem(answer) ==
  [question |-> "q", status |-> IF answer # "" THEN "success" ELSE "pending",
   answer |-> answer, errorMsg |-> "", tokenUsage |-> FALSE]

CountStatus(items, set) ==
  Cardinality({i \in DOMAIN items : items[i].status \in set})

\* an update that spreads the updates over every item
updateItemInSession_AllItems(session, itemId, updates) ==
  LET newItems == [i \in DOMAIN session.items |->
                     [f \in DOMAIN session.items[i] |->
                        IF f \in DOMAIN updates THEN updates[f]
                        ELSE session.items[i][f]]]
      completedCount == CountStatus(newItems, {"success", "error"})
  IN [session EXCEPT !.items = newItems,
                     !.completedFiles = completedCount,
                     !.isFinished = (completedCount = session.totalFiles)]

\* services/batchRunService.ts updateItemInSession: spread the updates over
\* the matching item, recompute completedFiles and isFinished
updateItemInSession(session, itemId, updates) ==
  LET newItems == [i \in DOMAIN session.items |->
                     IF i = itemId
                     THEN [f \in DOMAIN session.items[i] |->
                             IF f \in DOMAIN updates THEN updates[f]
                             ELSE session.items[i][f]]
                     ELSE session.items[i]]
      completedCount == CountStatus(newItems, {"success", "error"})
  IN [session EXCEPT !.items = newItems,
                     !.completedFiles = completedCount,
                     !.isFinished = (completedCount = session.totalFiles)]

IndexOfSession(list, id) ==
  IF \E k \in DOMAIN list : list[k].id = id
  THEN CHOOSE k \in DOMAIN list : list[k].id = id /\ \A j \in 1..(k-1) : list[j].id # id
  ELSE 0

\* a save that never looks for the id in the list
saveLocalBatchSession_AlwaysUnshift(list, session) ==
  LET put == <<session>> \o list
  IN IF Len(put) > StorageLimit THEN SubSeq(put, 1, Len(put) - 1) ELSE put

\* services/batchRunService.ts saveLocalBatchSession
saveLocalBatchSession(list, session) ==
  LET index == IndexOfSession(list, session.id)
      put == IF index > 0 THEN [list EXCEPT ![index] = session]
             ELSE <<session>> \o list
  IN IF Len(put) > StorageLimit THEN SubSeq(put, 1, Len(put) - 1) ELSE put

\* a publication that leaves the list as the last render saw it
PublishSession_Stale(list, cur) == list

\* setSessions(prev => prev.map(s => s.id === cur.id ? cur : s))
PublishSession(list, cur) ==
  [k \in DOMAIN list |-> IF list[k].id = cur.id THEN cur ELSE list[k]]

ActiveSessionIndex == IndexOfSession(sessions, activeSessionId)

\* completedFiles of a session built by handleRestoreFiles
RestoredCompleted(items) == CountStatus(items, {"success"})

\* isFinished of a session built by handleRestoreFiles
RestoredFinished(items) == TRUE

\* handleFolderSelect: a folder of n text files
handleFolderSelect(n) ==
  /\ Len(sessions) < MaxSessions
  /\ LET newSession == [id |-> nextSessionId,
                        name |-> "folder",
                        createdAt |-> nextSessionId,
                        totalFiles |-> n,
                        completedFiles |-> 0,
                        items |-> [i \in 1..n |-> NewItem],
                        isFinished |-> FALSE,
                        cacheNameUsed |-> NoCache]
     IN /\ storage' = saveLocalBatchSession(storage, newSession)
        /\ sessions' = <<newSession>> \o sessions
        /\ activeSessionId' = nextSessionId
  /\ nextSessionId' = nextSessionId + 1
  /\ UNCHANGED <<panelVars, isRunning, uiVars, cacheVars, abortControllerRef, runs>>

\* handleRestoreFiles: a folder of result files; answers[i] is the text after
\* the "=== ANSWER ===" marker of file i
handleRestoreFiles(answers) ==
  /\ Len(sessions) < MaxSessions
  /\ LET newItems == [i \in DOMAIN answers |-> RestoredItem(answers[i])]
         newSession == [id |-> nextSessionId,
                        name |-> "Restored-folder",
                        createdAt |-> nextSessionId,
                        totalFiles |-> Len(newItems),
                        completedFiles |-> RestoredCompleted(newItems),
                        items |-> newItems,
                        isFinished |-> RestoredFinished(newItems),
                        cacheNameUsed |-> NoCache]
     IN /\ storage' = saveLocalBatchSession(storage, newSession)
        /\ sessions' = <<newSession>> \o sessions
        /\ activeSessionId' = nextSessionId
  /\ nextSessionId' = nextSessionId + 1
  /\ UNCHANGED <<panelVars, isRunning, uiVars, cacheVars, abortControllerRef, runs>>

\* services/batchRunService.ts deleteLocalBatchSession
deleteLocalBatchSession(list, id) == SelectSeq(list, LAMBDA s : s.id # id)

\* services/batchRunService.ts clearAllLocalBatchSessions
clearAllLocalBatchSessions == <<>>

\* the trash button of a session of the history list (confirmed)
handleDeleteSession(id) ==
  /\ IndexOfSession(sessions, id) > 0
  /\ storage' = deleteLocalBatchSession(storage, id)
  /\ sessions' = storage'
  /\ activeSessionId' = IF activeSessionId = id THEN 0 ELSE activeSessionId
  /\ UNCHANGED <<panelVars, nextSessionId, isRunning, uiVars, cacheVars,
                 abortControllerRef, runs>>

\* the "clear all" button under a non-empty history list (confirmed)
handleClearAllHistory ==
  /\ sessions # <<>>
  /\ storage' = clearAllLocalBatchSessions
  /\ sessions' = <<>>
  /\ activeSessionId' = 0
  /\ UNCHANGED <<panelVars, nextSessionId, isRunning, uiVars, cacheVars,
                 abortControllerRef, runs>>

\* handleFolderSelect for a folder of one file, as often as StorageSpec allows
ImportFolder ==
  /\ nextSessionId <= MaxStored
  /\ LET newSession == [id |-> nextSessionId,
                        name |-> "folder",
                        createdAt |-> nextSessionId,
                        totalFiles |-> 1,
                        completedFiles |-> 0,
                        items |-> <<NewItem>>,
                        isFinished |-> FALSE,
                        cacheNameUsed |-> NoCache]
     IN /\ storage' = saveLocalBatchSession(storage, newSession)
        /\ sessions' = <<newSession>> \o sessions
        /\ activeSessionId' = nextSessionId
  /\ nextSessionId' = nextSessionId + 1
  /\ UNCHANGED <<panelVars, isRunning, uiVars, cacheVars, abortControllerRef, runs>>

\* ------------------------------------------------------ run configuration

\* onChange of the concurrency input: parseInt(value) || 1
ParseConcurrency(v) == IF v = 0 THEN DefaultConcurrency ELSE v

\* the configuration panel is rendered only while the active session is not
\* finished and nothing is running
ConfigVisible ==
  /\ ActiveSessionIndex > 0
  /\ ~sessions[ActiveSessionIndex].isFinished
  /\ ~isRunning

SetConcurrency(v) ==
  /\ ConfigVisible
  /\ concurrency' = ParseConcurrency(v)
  /\ concurrency' # concurrency
  /\ UNCHANGED <<panelVars, sessionVars, isRunning, autoDeleteCache, contextFile,
                 cacheVars, abortControllerRef, runs>>

SetAutoDeleteCache ==
  /\ ConfigVisible
  /\ autoDeleteCache' = ~autoDeleteCache
  /\ UNCHANGED <<panelVars, sessionVars, isRunning, concurrency, contextFile,
                 cacheVars, abortControllerRef, runs>>

\* handleContextFileSelect / the trash button next to the file
SetContextFile ==
  /\ ConfigVisible
  /\ contextFile' = ~contextFile
  /\ UNCHANGED <<panelVars, sessionVars, isRunning, autoDeleteCache, concurrency,
                 cacheVars, abortControllerRef, runs>>

\* ------------------------------------------------------------ run closure

\* handles are issued by the provider; the handle created by run r is r
Handles == 1..MaxRuns

\* a handleDeleteCache that forgets the name and leaves the status
ClearedCache_StatusKept == [status |-> "active", cacheName |-> NoCache]

\* App.tsx handleDeleteCache, local part: the record is released first
ClearedCache == [status |-> "none", cacheName |-> NoCache]

\* App.tsx handleDeleteCache, remote part: deleteCache is called only when
\* the cacheName seen by the closure is set
DeleteCallsFor(name, cont, r) ==
  IF name = NoCache THEN {} ELSE {[h |-> name, cont |-> cont, r |-> r]}

IssueDeletes(name, cont, r) ==
  /\ pendingDeletes' = pendingDeletes \cup DeleteCallsFor(name, cont, r)
  /\ delCalls' = [h \in Handles |->
                    IF h = name THEN delCalls[h] + 1 ELSE delCalls[h]]

\* queue seeding: activeSession.items.filter(pending || error), retries 0
SeedIndices(items) ==
  {i \in DOMAIN items : items[i].status = "pending" \/ items[i].status = "error"}

RECURSIVE SeqOfSet(_, _)
SeqOfSet(S, n) ==
  IF n = 0 THEN <<>>
  ELSE LET rest == SeqOfSet(S, n - 1)
       IN IF n \in S THEN Append(rest, [item |-> n, retries |-> 0, tries |-> 0])
          ELSE rest

SeedQueue(items) == SeqOfSet(SeedIndices(items), Len(items))

\* `queueItem.retries++; delay = Math.pow(2, queueItem.retries) * 2000`:
\* the delay in ms, from the retries count after its increment
BackoffDelay(retries) == (BackoffBase ^ retries) * BackoffUnit

\* the retry callback attached to processItem's promise, for a failed try:
\* re-queue after a backoff while retries < MAX_RETRIES, else give up
RetryCallback(ticket) ==
  IF ticket.retries < MAX_RETRIES
  THEN [ticket EXCEPT !.retries = ticket.retries + 1,
                      !.phase = "backoff",
                      !.delay = BackoffDelay(ticket.retries + 1)]
  ELSE [ticket EXCEPT !.phase = "resolved"]

\* status written by processItem's catch block
FailureStatus(ticket) == "error"

\* a processItem that reads the cache name of the current render
GenerateCache_Current(rr) == contextCache.cacheName

\* the cache name processItem passes to generateBatchContent: the
\* activeCacheName of its closure
GenerateCache(rr) == rr.activeCacheName

\* processItem without its abort check
DispatchBlocked_NoCheck(rr) == FALSE

\* processItem's first statement: `if (signal.aborted) return false`
DispatchBlocked(rr) == rr.aborted

\* processItem publishes a completion only while the signal is not aborted
PublishAllowed(rr) == ~rr.aborted

FirstResolved(executing) ==
  CHOOSE k \in DOMAIN executing :
    /\ executing[k].phase = "resolved"
    /\ \A j \in 1..(k-1) : executing[j].phase # "resolved"

Splice(seq, k) ==
  [j \in 1..(Len(seq) - 1) |-> IF j < k THEN seq[j] ELSE seq[j + 1]]

\* the pool has room for another execution
PoolHasRoom(rr) == Len(rr.executing) < rr.conc

RECURSIVE LoopTop(_), Fill(_), Race(_)

\* await Promise.all(executing)
Join(rr) ==
  IF \A k \in DOMAIN rr.executing : rr.executing[k].phase = "resolved"
  THEN [rr EXCEPT !.pc = "finish"]
  ELSE [rr EXCEPT !.pc = "joinAll"]

\* a loop that ends as soon as the queue is empty, executions still running
LoopTop_QueueOnly(rr) ==
  IF rr.queue = <<>> THEN [rr EXCEPT !.pc = "finish"]
  ELSE IF rr.aborted THEN Join(rr)
  ELSE Fill(rr)

\* while (queue.length > 0 || executing.length > 0) { if aborted break; ...
LoopTop(rr) ==
  IF rr.queue = <<>> /\ rr.executing = <<>> THEN Join(rr)
  ELSE IF rr.aborted THEN Join(rr)
  ELSE Fill(rr)

\* a pool-filling loop that reads the first ticket and leaves it queued
Fill_NoShift(rr) ==
  IF rr.queue # <<>> /\ PoolHasRoom(rr)
  THEN [rr EXCEPT !.held = Head(rr.queue), !.pc = "throttle"]
  ELSE IF rr.executing = <<>> /\ rr.queue = <<>> THEN Join(rr)
  ELSE Race(rr)

\* a pool-filling loop that takes the newest ticket (queue.pop())
Fill_TakeLast(rr) ==
  IF rr.queue # <<>> /\ PoolHasRoom(rr)
  THEN [rr EXCEPT !.held = rr.queue[Len(rr.queue)],
                  !.queue = SubSeq(rr.queue, 1, Len(rr.queue) - 1),
                  !.pc = "throttle"]
  ELSE IF rr.executing = <<>> /\ rr.queue = <<>> THEN Join(rr)
  ELSE Race(rr)

\* while (queue.length > 0 && executing.length < concurrency) { shift; await 1s
Fill(rr) ==
  IF rr.queue # <<>> /\ PoolHasRoom(rr)
  THEN [rr EXCEPT !.held = Head(rr.queue), !.queue = Tail(rr.queue),
                  !.pc = "throttle"]
  ELSE IF rr.executing = <<>> /\ rr.queue = <<>> THEN Join(rr)
  ELSE Race(rr)

\* index = await Promise.race(...); executing.splice(index, 1)
Race(rr) ==
  IF \E k \in DOMAIN rr.executing : rr.executing[k].phase = "resolved"
  THEN LoopTop([rr EXCEPT !.executing = Splice(rr.executing, FirstResolved(rr.executing))])
  ELSE [rr EXCEPT !.pc = "race"]

\* a settled execution wakes the scheduler loop if it is awaiting one
Wake(rr) ==
  IF rr.pc = "race" THEN Race(rr)
  ELSE IF rr.pc = "joinAll" THEN Join(rr)
  ELSE rr

\* the run left the loop without having been aborted
Finished(rr) == rr.pc = "finish" /\ ~rr.aborted

\* a completion block that tears down whatever the settings are
TearsDown_Always(rr) == Finished(rr)

\* `if (autoDeleteCache && activeCacheName && !cacheDeleted)`
TearsDown(rr) == Finished(rr) /\ rr.autoDel /\ rr.activeCacheName # NoCache

\* the handle the completion teardown asks the provider to delete:
\* onDeleteCache is the handleDeleteCache of the render in which the run was
\* started, so it reads contextCache.cacheName as of the click
TeardownTarget(rr) == rr.staleCacheName

IsGen(e) == e.phase = "gen"

NoSession == [id |-> 0, name |-> "", createdAt |-> 0, totalFiles |-> 0, completedFiles |-> 0, items |-> <<>>,
              isFinished |-> FALSE, cacheNameUsed |-> NoCache]

\* what is left of an aborted invocation once it has returned
AbortedAndReturned ==
  [pc |-> "done", aborted |-> TRUE, hasFile |-> FALSE, autoDel |-> FALSE,
   conc |-> 0, staleCacheName |-> NoCache, activeCacheName |-> NoCache,
   cur |-> NoSession, queue |-> <<>>, held |-> NoTicket, executing |-> <<>>,
   dispatched |-> FALSE, blocked |-> FALSE, createRejected |-> FALSE,
   warmedUp |-> FALSE]

\* handleIntegratedRun has returned: its queue, pool and tickets are
\* unreachable, and so is the whole closure of an aborted invocation
Returned(rr) ==
  IF rr.aborted THEN AbortedAndReturned
  ELSE [rr EXCEPT !.pc = "done", !.queue = <<>>, !.held = NoTicket,
                  !.executing = SelectSeq(rr.executing, IsGen)]

\* abortControllerRef.current.abort() seen from the run that owns the signal.
\* From here on the run can reach neither the provider nor the session list:
\* processItem returns at its first statement, completions are not published,
\* the retry callbacks only move tickets between backoff timers and the queue,
\* and the completion block is skipped.  Of a run aborted while scheduling the
\* model keeps what can still be observed: the ticket waiting in the throttle
\* delay (processItem is still called for it) and the Generate calls in flight.
Aborted(rr) ==
  IF rr.pc \in {"throttle", "race"}
  THEN LET inflight == SelectSeq(rr.executing, IsGen)
           z == [rr EXCEPT !.aborted = TRUE,
                           !.autoDel = FALSE,
                           !.conc = 0,
                           !.staleCacheName = NoCache,
                           !.queue = <<>>,
                           !.held = IF rr.held = NoTicket THEN NoTicket
                                    ELSE [NoTicket EXCEPT !.item = rr.held.item],
                           !.executing = [k \in DOMAIN inflight |->
                                            [inflight[k] EXCEPT !.retries = 0,
                                                                !.tries = 0]]]
       IN IF z.held = NoTicket /\ z.executing = <<>> THEN Returned(z) ELSE z
  ELSE IF rr.pc \in {"cleanup", "creating", "warmup"}
  THEN [rr EXCEPT !.aborted = TRUE, !.autoDel = FALSE, !.conc = 0,
                  !.staleCacheName = NoCache, !.cur = NoSession]
  ELSE rr

\* the end of handleIntegratedRun once the loop has been left
Settle(r, rr, runsBase, running, cc, ref) ==
  /\ runs' = [runsBase EXCEPT ![r] = IF rr.pc = "finish" THEN Returned(rr) ELSE rr]
  /\ isRunning' = IF Finished(rr) THEN FALSE ELSE running
  /\ contextCache' = IF TearsDown(rr) THEN ClearedCache ELSE cc
  /\ currentRunningCacheRef' = IF TearsDown(rr) THEN NoCache ELSE ref
  /\ IssueDeletes(IF TearsDown(rr) THEN TeardownTarget(rr) ELSE NoCache, "none", r)

\* Step 2 of handleIntegratedRun: seed the queue from the session captured
\* at the click and enter the loop
Seed(rr) ==
  LoopTop([rr EXCEPT !.queue = SeedQueue(rr.cur.items),
                     !.cur = [rr.cur EXCEPT !.cacheNameUsed = rr.activeCacheName]])

\* a run that starts the batch as soon as the cache is created
AfterCreate_NoWarmup(rr, h) ==
  Seed([rr EXCEPT !.activeCacheName = h])

\* the state to which a successful CreateCache brings the run
AfterCreate(rr, h) ==
  [rr EXCEPT !.activeCacheName = h, !.pc = "warmup"]

\* a run that goes on to the batch although createCache was rejected
AfterCreateRejected_Ignored(rr) ==
  Seed([rr EXCEPT !.createRejected = TRUE])

\* `if (!result) throw ...` and the catch block: the run is over
AfterCreateRejected(rr) == [rr EXCEPT !.pc = "failed", !.createRejected = TRUE]

\* a run for which a failed deletion of the old cache is fatal
AfterCleanup_Fatal(rr, ok) ==
  IF ok THEN [rr EXCEPT !.pc = "creating"] ELSE [rr EXCEPT !.pc = "failed"]

\* `try { await onDeleteCache() } catch { warn }`, then onCreateCache:
\* handleDeleteCache has swallowed a failure, the run goes on to create
AfterCleanup(rr, ok) == [rr EXCEPT !.pc = "creating"]

\* the state of the run when the warm-up timer fires
AfterWarmup(rr) ==
  IF rr.aborted THEN Returned(rr)
  ELSE Seed([rr EXCEPT !.warmedUp = TRUE])

\* ------------------------------------------------------------ run actions

\* the closure of a handleIntegratedRun invocation at the click
NewRun ==
  [pc |-> "start",
   aborted |-> FALSE,                          \* signal.aborted
   hasFile |-> contextFile,
   autoDel |-> autoDeleteCache,
   conc |-> concurrency,
   staleCacheName |-> contextCache.cacheName,  \* cacheName seen by onDeleteCache
   activeCacheName |-> IF contextCache.status = "active"
                       THEN contextCache.cacheName ELSE NoCache,
   cur |-> sessions[ActiveSessionIndex],       \* activeSession, then currentSessionState
   queue |-> <<>>,
   held |-> NoTicket,                          \* ticket shifted, in the throttle delay
   executing |-> <<>>,
   dispatched |-> FALSE,                       \* a Generate call was issued
   blocked |-> FALSE,                          \* processItem returned at the abort check
   createRejected |-> FALSE,                   \* createCache was rejected
   warmedUp |-> FALSE]                         \* the warm-up delay has elapsed

\* `contextCache.status === 'active' || contextCache.cacheName`
HasOldCache == contextCache.status = "active" \/ contextCache.cacheName # NoCache

\* click on "Start Integrated Run" with a context file attached
StartRunWithFile ==
  /\ ConfigVisible
  /\ Len(runs) < MaxRuns
  /\ contextFile
  /\ LET r == Len(runs) + 1 IN
       /\ abortControllerRef' = r
       /\ isRunning' = TRUE
       /\ IF HasOldCache /\ contextCache.cacheName # NoCache
          THEN \* await onDeleteCache() with a remote call in flight
               /\ runs' = Append(runs, [NewRun EXCEPT !.pc = "cleanup"])
               /\ contextCache' = ClearedCache
               /\ IssueDeletes(contextCache.cacheName, "cleanup", r)
          ELSE \* onCreateCache: status loading, createCache in flight
               /\ runs' = Append(runs, [NewRun EXCEPT !.pc = "creating"])
               /\ contextCache' = [status |-> "loading", cacheName |-> NoCache]
               /\ UNCHANGED <<pendingDeletes, delCalls>>
  /\ UNCHANGED <<panelVars, sessionVars, uiVars, currentRunningCacheRef, remoteCaches>>

\* click on "Start Integrated Run" without a context file; `proceed` is the
\* answer to the confirm dialog shown when no cache is active
handleIntegratedRunNoFile(proceed) ==
  /\ ConfigVisible
  /\ ~contextFile
  /\ LET r == Len(runs) + 1 IN
       /\ abortControllerRef' = r
       /\ IF NewRun.activeCacheName = NoCache /\ ~proceed
          THEN /\ runs' = Append(runs, [NewRun EXCEPT !.pc = "declined"])
               /\ UNCHANGED <<isRunning, contextCache, currentRunningCacheRef,
                              pendingDeletes, delCalls>>
          ELSE /\ NewRun.activeCacheName # NoCache => proceed
               /\ Settle(r, Seed(NewRun), Append(runs, NewRun), TRUE, contextCache,
                         IF NewRun.activeCacheName = NoCache
                         THEN currentRunningCacheRef ELSE NewRun.activeCacheName)
  /\ UNCHANGED <<panelVars, sessionVars, uiVars, remoteCaches>>

StartRunNoFile(proceed) ==
  /\ Len(runs) < MaxRuns
  /\ handleIntegratedRunNoFile(proceed)

\* the same click under OverlapSpec, where one invocation precedes Init
StartOverlappingRun(proceed) ==
  /\ Len(runs) < MaxRuns + 1
  /\ handleIntegratedRunNoFile(proceed)

\* a DeleteCache call returns (ok) or throws; handleDeleteCache swallows the
\* failure, then the awaiting handler continues
DeleteCacheReturns(call, ok) ==
  /\ call \in pendingDeletes
  /\ ok => call.h \in remoteCaches
  /\ pendingDeletes' = pendingDeletes \ {call}
  /\ remoteCaches' = IF ok THEN remoteCaches \ {call.h} ELSE remoteCaches
  /\ CASE call.cont = "cleanup" ->
            \* handleIntegratedRun goes on to onCreateCache
            /\ runs' = [runs EXCEPT ![call.r] = AfterCleanup(runs[call.r], ok)]
            /\ contextCache' = [contextCache EXCEPT !.status = "loading"]
            /\ UNCHANGED currentRunningCacheRef
       [] call.cont = "stop" ->
            \* handleStop: currentRunningCacheRef.current = undefined
            /\ currentRunningCacheRef' = NoCache
            /\ UNCHANGED <<runs, contextCache>>
       [] OTHER -> UNCHANGED <<runs, contextCache, currentRunningCacheRef>>
  /\ UNCHANGED <<panelVars, sessionVars, uiVars, isRunning, abortControllerRef, delCalls>>

\* createCache returns a handle (ok) or is rejected
CreateCacheReturns(r, ok) ==
  /\ r \in DOMAIN runs
  /\ runs[r].pc = "creating"
  /\ IF ok
     THEN /\ remoteCaches' = remoteCaches \cup {r}
          /\ contextCache' = [status |-> "active", cacheName |-> r]
          /\ runs' = [runs EXCEPT ![r] = AfterCreate(runs[r], r)]
          /\ currentRunningCacheRef' = r
          /\ UNCHANGED isRunning
     ELSE /\ contextCache' = [contextCache EXCEPT !.status = "error"]
          /\ runs' = [runs EXCEPT ![r] = AfterCreateRejected(runs[r])]
          /\ isRunning' = FALSE
          /\ UNCHANGED <<remoteCaches, currentRunningCacheRef>>
  /\ UNCHANGED <<panelVars, sessionVars, uiVars, abortControllerRef, pendingDeletes, delCalls>>

\* the 5 s warm-up timer fires: `if (signal.aborted) return`, else Step 2
WarmupElapses(r) ==
  /\ r \in DOMAIN runs
  /\ runs[r].pc = "warmup"
  /\ Settle(r, AfterWarmup(runs[r]), runs, isRunning, contextCache,
            currentRunningCacheRef)
  /\ UNCHANGED <<panelVars, sessionVars, uiVars, abortControllerRef, remoteCaches>>

\* the 1 s throttle timer fires: processItem(queueItem) is called, its
\* promise is pushed on `executing`, and the pool-filling loop goes on
ThrottleElapses(r) ==
  /\ r \in DOMAIN runs
  /\ runs[r].pc = "throttle"
  /\ LET rr == runs[r]
         t == rr.held
         cur1 == updateItemInSession(rr.cur, t.item, [status |-> "loading"])
         rr1 == IF DispatchBlocked(rr)
                THEN [rr EXCEPT !.held = NoTicket, !.blocked = TRUE]
                ELSE [rr EXCEPT !.held = NoTicket,
                                !.cur = cur1,
                                !.dispatched = TRUE,
                                !.executing = Append(rr.executing,
                                   [item |-> t.item, retries |-> t.retries,
                                    tries |-> t.tries + 1, phase |-> "gen",
                                    delay |-> 0, cache |-> GenerateCache(rr)])]
     IN /\ sessions' = IF DispatchBlocked(rr) THEN sessions
                       ELSE PublishSession(sessions, cur1)
        /\ Settle(r, Fill(rr1), runs, isRunning, contextCache,
                  currentRunningCacheRef)
  /\ UNCHANGED <<panelVars, storage, activeSessionId, nextSessionId, uiVars,
                 abortControllerRef, remoteCaches>>

\* generateBatchContent resolves with `text`
GenerateSucceeds(r, k, text) ==
  /\ r \in DOMAIN runs
  /\ k \in DOMAIN runs[r].executing
  /\ runs[r].executing[k].phase = "gen"
  /\ LET rr == runs[r]
         e == rr.executing[k]
         cur1 == updateItemInSession(rr.cur, e.item,
                   [status |-> "success", answer |-> text, tokenUsage |-> TRUE])
         rr1 == [rr EXCEPT !.cur = IF PublishAllowed(rr) THEN cur1 ELSE rr.cur,
                           !.executing[k].phase = "resolved"]
     IN /\ sessions' = IF PublishAllowed(rr) THEN PublishSession(sessions, cur1)
                       ELSE sessions
        /\ storage' = IF PublishAllowed(rr) THEN saveLocalBatchSession(storage, cur1)
                      ELSE storage
        /\ Settle(r, Wake(rr1), runs, isRunning, contextCache,
                  currentRunningCacheRef)
  /\ UNCHANGED <<panelVars, activeSessionId, nextSessionId, uiVars, abortControllerRef,
                 remoteCaches>>

\* generateBatchContent rejects with message `msg`
GenerateFails(r, k, msg) ==
  /\ r \in DOMAIN runs
  /\ k \in DOMAIN runs[r].executing
  /\ runs[r].executing[k].phase = "gen"
  /\ LET rr == runs[r]
         e == rr.executing[k]
         cur1 == updateItemInSession(rr.cur, e.item,
                   [status |-> FailureStatus(e), errorMsg |-> msg])
         rr1 == [rr EXCEPT !.cur = IF rr.aborted THEN rr.cur ELSE cur1,
                           !.executing[k] = IF rr.aborted
                                            THEN [e EXCEPT !.phase = "resolved"]
                                            ELSE RetryCallback(e)]
     IN /\ sessions' = IF rr.aborted THEN sessions
                       ELSE PublishSession(sessions, cur1)
        /\ Settle(r, Wake(rr1), runs, isRunning, contextCache,
                  currentRunningCacheRef)
  /\ UNCHANGED <<panelVars, storage, activeSessionId, nextSessionId, uiVars,
                 abortControllerRef, remoteCaches>>

\* the backoff timer of a failed try fires: queue.push(queueItem)
BackoffElapses(r, k) ==
  /\ r \in DOMAIN runs
  /\ k \in DOMAIN runs[r].executing
  /\ runs[r].executing[k].phase = "backoff"
  /\ LET rr == runs[r]
         e == rr.executing[k]
         rr1 == [rr EXCEPT !.queue = Append(rr.queue,
                                       [item |-> e.item, retries |-> e.retries,
                                        tries |-> e.tries]),
                           !.executing[k].phase = "resolved"]
     IN Settle(r, Wake(rr1), runs, isRunning, contextCache,
               currentRunningCacheRef)
  /\ UNCHANGED <<panelVars, sessionVars, uiVars, abortControllerRef, remoteCaches>>

\* a stop handler without its first statement
StopIgnored_Never == FALSE

\* handleStop's first statement: `if (!isRunning) return`
StopIgnored == ~isRunning

\* click on the stop button (confirmed): abort the current controller, and
\* delete the cache through the handleDeleteCache of the current render
handleStop ==
  /\ ~StopIgnored
  /\ ActiveSessionIndex > 0
  /\ abortControllerRef > 0
  /\ runs' = [runs EXCEPT ![abortControllerRef] = Aborted(runs[abortControllerRef])]
  /\ isRunning' = FALSE
  /\ IF currentRunningCacheRef # NoCache
     THEN /\ contextCache' = ClearedCache
          /\ IssueDeletes(contextCache.cacheName, "stop", abortControllerRef)
          /\ currentRunningCacheRef' =
               IF contextCache.cacheName = NoCache THEN NoCache
               ELSE currentRunningCacheRef
     ELSE UNCHANGED <<contextCache, pendingDeletes, delCalls,
                      currentRunningCacheRef>>
  /\ UNCHANGED <<panelVars, sessionVars, uiVars, abortControllerRef, remoteCaches>>

\* ---------------------------------------------------------- Economy panel

\* the closure of a handleSend invocation that has just been called
NewSend == [pc |-> "creating", cacheName |-> 0, cacheDeleted |-> FALSE]

\* deleteCache(apiKey, h) is called; `from` tells which handler awaits it
IssueCacheDelete(h, from, s) ==
  /\ cacheDeletes' = cacheDeletes \cup {[h |-> h, from |-> from, s |-> s]}
  /\ cacheDelCalls' = [cacheDelCalls EXCEPT ![h] = @ + 1]

\* the catch and finally blocks of handleSend
CatchSend(s) ==
  /\ sends' = [sends EXCEPT ![s].pc = "done"]
  /\ IF activeCacheIdRef # 0
     THEN IssueCacheDelete(activeCacheIdRef, "catch", s)
     ELSE UNCHANGED <<cacheDeletes, cacheDelCalls>>
  /\ activeCacheIdRef' = 0
  /\ isProcessing' = FALSE

\* handleSend with a message and an API key, up to createCacheFromContent
handleSend ==
  /\ Len(sends) < MaxSends
  /\ sends' = Append(sends, NewSend)
  /\ isProcessing' = TRUE
  /\ UNCHANGED <<activeCacheIdRef, cacheDeletes, cacheDelCalls>>
  /\ UNCHANGED <<sessionVars, isRunning, uiVars, cacheVars, abortControllerRef,
                 runs, simpleVars>>

\* createCacheFromContent returns the cache of send s (ok) or is rejected
CreateCacheFromContentReturns(s, ok) ==
  /\ s \in DOMAIN sends
  /\ sends[s].pc = "creating"
  /\ IF ok
     THEN /\ sends' = [sends EXCEPT ![s].pc = "opening", ![s].cacheName = s]
          /\ activeCacheIdRef' = s
          /\ UNCHANGED <<isProcessing, cacheDeletes, cacheDelCalls>>
     ELSE CatchSend(s)
  /\ UNCHANGED <<sessionVars, isRunning, uiVars, cacheVars, abortControllerRef,
                 runs, simpleVars>>

\* the import of the client and generateContentStream return the stream
\* (ok), or one of them is rejected
StreamOpens(s, ok) ==
  /\ s \in DOMAIN sends
  /\ sends[s].pc = "opening"
  /\ IF ok
     THEN /\ sends' = [sends EXCEPT ![s].pc = "streaming"]
          /\ UNCHANGED <<activeCacheIdRef, isProcessing, cacheDeletes,
                         cacheDelCalls>>
     ELSE CatchSend(s)
  /\ UNCHANGED <<sessionVars, isRunning, uiVars, cacheVars, abortControllerRef,
                 runs, simpleVars>>

\* the stream yields a chunk with the given text
StreamChunk(s, text) ==
  /\ s \in DOMAIN sends
  /\ sends[s].pc = "streaming"
  /\ IF text # "" /\ ~sends[s].cacheDeleted
     THEN /\ sends' = [sends EXCEPT ![s].cacheDeleted = TRUE]
          /\ IssueCacheDelete(sends[s].cacheName, "stream", s)
     ELSE UNCHANGED <<sends, cacheDeletes, cacheDelCalls>>
  /\ UNCHANGED <<activeCacheIdRef, isProcessing>>
  /\ UNCHANGED <<sessionVars, isRunning, uiVars, cacheVars, abortControllerRef,
                 runs, simpleVars>>

\* the stream ends: setStatus('Finished.') and the finally block
StreamEnds(s) ==
  /\ s \in DOMAIN sends
  /\ sends[s].pc = "streaming"
  /\ sends' = [sends EXCEPT ![s].pc = "done"]
  /\ isProcessing' = FALSE
  /\ UNCHANGED <<activeCacheIdRef, cacheDeletes, cacheDelCalls>>
  /\ UNCHANGED <<sessionVars, isRunning, uiVars, cacheVars, abortControllerRef,
                 runs, simpleVars>>

\* the stream throws while it is iterated
StreamThrows(s) ==
  /\ s \in DOMAIN sends
  /\ sends[s].pc = "streaming"
  /\ CatchSend(s)
  /\ UNCHANGED <<sessionVars, isRunning, uiVars, cacheVars, abortControllerRef,
                 runs, simpleVars>>

\* a deleteCache call resolves (ok) or rejects; only the call made while
\* streaming has a `then` that clears the ref
CacheDeleteSettles(call, ok) ==
  /\ call \in cacheDeletes
  /\ cacheDeletes' = cacheDeletes \ {call}
  /\ activeCacheIdRef' = IF ok /\ call.from = "stream" THEN 0
                         ELSE activeCacheIdRef
  /\ UNCHANGED <<sends, isProcessing, cacheDelCalls>>
  /\ UNCHANGED <<sessionVars, isRunning, uiVars, cacheVars, abortControllerRef,
                 runs, simpleVars>>

EconomyInit ==
  /\ sends = <<>>
  /\ activeCacheIdRef = 0
  /\ isProcessing = FALSE
  /\ cacheDeletes = {}
  /\ cacheDelCalls = [h \in 1..MaxSends |-> 0]

\* ------------------------------------------------------ simple bulk runner

\* the smaller of two numbers
Min(a, b) == IF a < b THEN a ELSE b

\* questions.slice(i, i + BATCH_SIZE), as indices (i counts from 0)
Batch(i, n) == (i + 1)..Min(i + BATCH_SIZE, n)

\* Math.round((completed / total) * 100)
ProgressOf(completed, total) == (200 * completed + total) \div (2 * total)

\* a Promise.all that is over with the first promise that settles
BatchSettled_First(out, i, n) == TRUE

\* Promise.all over the batch: every callback of the batch has returned
BatchSettled(out, i, n) == out \cap Batch(i, n) = {}

\* handleRun: the run button, enabled while no run is in progress, with n
\* parsed questions; the callbacks of the first batch run up to their await
handleRun(n) ==
  /\ ~simpleIsRunning
  /\ simpleIsRunning' = TRUE
  /\ progress' = 0
  /\ simpleCompletedCount' = 0
  /\ batchStart' = 0
  /\ results' = [j \in 1..n |-> IF j \in Batch(0, n) THEN "loading"
                                 ELSE "pending"]
  /\ outstanding' = Batch(0, n)
  /\ UNCHANGED <<sessionVars, isRunning, uiVars, cacheVars, abortControllerRef,
                 runs, economyVars>>

\* generateSingleContent for question j returns (ok) or throws; the
\* callback ends, and when Promise.all is over the loop goes on
GenerateSingleContentReturns(j, ok) ==
  /\ j \in outstanding
  /\ LET n == Len(results)
         done == simpleCompletedCount + 1
         out == outstanding \ {j}
         settled == [results EXCEPT ![j] = IF ok THEN "success" ELSE "error"]
         i == batchStart + BATCH_SIZE
     IN /\ simpleCompletedCount' = done
        /\ progress' = ProgressOf(done, n)
        /\ IF j \in Batch(batchStart, n) /\ BatchSettled(out, batchStart, n)
           THEN /\ batchStart' = i
                /\ IF i < n
                   THEN /\ results' = [k \in 1..n |->
                                         IF k \in Batch(i, n) THEN "loading"
                                         ELSE settled[k]]
                        /\ outstanding' = out \cup Batch(i, n)
                        /\ UNCHANGED simpleIsRunning
                   ELSE /\ results' = settled
                        /\ outstanding' = out
                        /\ simpleIsRunning' = FALSE
           ELSE /\ results' = settled
                /\ outstanding' = out
                /\ UNCHANGED <<batchStart, simpleIsRunning>>
  /\ UNCHANGED <<sessionVars, isRunning, uiVars, cacheVars, abortControllerRef,
                 runs, economyVars>>

SimpleInit ==
  /\ results = <<>>
  /\ progress = 0
  /\ simpleIsRunning = FALSE
  /\ simpleCompletedCount = 0
  /\ batchStart = 0
  /\ outstanding = {}

\* ---------------------------------------------------------- specification

Init ==
  /\ sessions = <<>>
  /\ storage = <<>>
  /\ activeSessionId = 0
  /\ nextSessionId = 1
  /\ isRunning = FALSE
  /\ autoDeleteCache = TRUE
  /\ concurrency = DefaultConcurrency
  /\ contextFile = FALSE
  /\ contextCache = ClearedCache
  /\ currentRunningCacheRef = NoCache
  /\ abortControllerRef = 0
  /\ runs = <<>>
  /\ remoteCaches = {}
  /\ pendingDeletes = {}
  /\ delCalls = [h \in Handles |-> 0]
  /\ EconomyInit
  /\ SimpleInit

AnswerFolders ==
  UNION {[1..n -> AnswerTexts \cup {""}] : n \in 1..MaxItems}

Next ==
  \/ \E n \in 1..MaxItems : handleFolderSelect(n)
  \/ \E answers \in AnswerFolders : handleRestoreFiles(answers)
  \/ \E v \in RawConcurrency : SetConcurrency(v)
  \/ SetAutoDeleteCache
  \/ SetContextFile
  \/ StartRunWithFile
  \/ \E proceed \in BOOLEAN : StartRunNoFile(proceed)
  \/ \E call \in pendingDeletes : \E ok \in BOOLEAN : DeleteCacheReturns(call, ok)
  \/ \E r \in 1..MaxRuns : \E ok \in BOOLEAN : CreateCacheReturns(r, ok)
  \/ \E r \in 1..MaxRuns : WarmupElapses(r)
  \/ \E r \in 1..MaxRuns : ThrottleElapses(r)
  \/ \E r \in 1..MaxRuns : \E k \in 1..MaxItems : \E text \in AnswerTexts :
       GenerateSucceeds(r, k, text)
  \/ \E r \in 1..MaxRuns : \E k \in 1..MaxItems : \E msg \in ErrorTexts :
       GenerateFails(r, k, msg)
  \/ \E r \in 1..MaxRuns : \E k \in 1..MaxItems : BackoffElapses(r, k)
  \/ handleStop

Spec == Init /\ [][Next]_vars

\* the history list alone: folders are imported and sessions are deleted,
\* nothing is run
StorageNext ==
  \/ ImportFolder
  \/ \E id \in 1..MaxStored : handleDeleteSession(id)
  \/ handleClearAllHistory

StorageSpec == Init /\ [][StorageNext]_vars

\* a session of one file, untouched or with its file answered
StoredSession(id, done) ==
  LET fresh == [id |-> id,
                name |-> "folder",
                createdAt |-> id,
                totalFiles |-> 1,
                completedFiles |-> 0,
                items |-> <<NewItem>>,
                isFinished |-> FALSE,
                cacheNameUsed |-> NoCache]
  IN IF done
     THEN updateItemInSession(fresh, 1, [status |-> "success", answer |-> "ans"])
     ELSE fresh

\* saveLocalBatchSession called with a session of a new id
SaveNewSession ==
  /\ nextSessionId <= MaxStored
  /\ storage' = saveLocalBatchSession(storage, StoredSession(nextSessionId, FALSE))
  /\ nextSessionId' = nextSessionId + 1
  /\ UNCHANGED <<panelVars, sessions, activeSessionId, isRunning, uiVars, cacheVars,
                 abortControllerRef, runs>>

\* saveLocalBatchSession called with a session whose id is stored
SaveStoredSession(id, done) ==
  /\ IndexOfSession(storage, id) > 0
  /\ storage' = saveLocalBatchSession(storage, StoredSession(id, done))
  /\ UNCHANGED <<panelVars, sessions, activeSessionId, nextSessionId, isRunning, uiVars,
                 cacheVars, abortControllerRef, runs>>

\* deleteLocalBatchSession called with an id that was given out
DeleteStoredSession(id) ==
  /\ id < nextSessionId
  /\ storage' = deleteLocalBatchSession(storage, id)
  /\ UNCHANGED <<panelVars, sessions, activeSessionId, nextSessionId, isRunning, uiVars,
                 cacheVars, abortControllerRef, runs>>

\* the storage service alone: any sequence of its save and delete calls
SaveNext ==
  \/ SaveNewSession
  \/ \E id \in 1..MaxResaved : \E done \in BOOLEAN : SaveStoredSession(id, done)
  \/ \E id \in 1..MaxStored : DeleteStoredSession(id)

SaveSpec == Init /\ [][SaveNext]_vars

\* the invocation of a run that was started with a context file and stopped
\* while its createCache call was in flight
StoppedWhileCreating ==
  [AbortedAndReturned EXCEPT !.pc = "creating", !.hasFile = TRUE]

\* the state after: a folder of MaxItems files imported, a context file
\* attached, the run started, stopped while createCache is in flight, and
\* the context file taken away
OverlapInit ==
  LET imported == [id |-> 1,
                   name |-> "folder",
                   createdAt |-> 1,
                   totalFiles |-> MaxItems,
                   completedFiles |-> 0,
                   items |-> [i \in 1..MaxItems |-> NewItem],
                   isFinished |-> FALSE,
                   cacheNameUsed |-> NoCache]
  IN /\ sessions = <<imported>>
     /\ storage = <<imported>>
     /\ activeSessionId = 1
     /\ nextSessionId = 2
     /\ isRunning = FALSE
     /\ autoDeleteCache = TRUE
     /\ concurrency = DefaultConcurrency
     /\ contextFile = FALSE
     /\ contextCache = [status |-> "loading", cacheName |-> NoCache]
     /\ currentRunningCacheRef = NoCache
     /\ abortControllerRef = 1
     /\ runs = <<StoppedWhileCreating>>
     /\ remoteCaches = {}
     /\ pendingDeletes = {}
     /\ delCalls = [h \in Handles |-> 0]
     /\ EconomyInit
     /\ SimpleInit

\* runs started while the createCache call of a stopped run is pending
OverlapNext ==
  \/ \E proceed \in BOOLEAN : StartOverlappingRun(proceed)
  \/ \E call \in pendingDeletes : \E ok \in BOOLEAN : DeleteCacheReturns(call, ok)
  \/ \E r \in DOMAIN runs : \E ok \in BOOLEAN : CreateCacheReturns(r, ok)
  \/ \E r \in DOMAIN runs : WarmupElapses(r)
  \/ \E r \in DOMAIN runs : ThrottleElapses(r)
  \/ \E r \in DOMAIN runs : \E k \in 1..MaxItems : \E text \in AnswerTexts :
       GenerateSucceeds(r, k, text)
  \/ \E r \in DOMAIN runs : \E k \in 1..MaxItems : \E msg \in ErrorTexts :
       GenerateFails(r, k, msg)
  \/ \E r \in DOMAIN runs : \E k \in 1..MaxItems : BackoffElapses(r, k)
  \/ handleStop

OverlapSpec == OverlapInit /\ [][OverlapNext]_vars

\* the state after a folder of MaxItems files has been imported
DeleteInit ==
  LET imported == [id |-> 1,
                   name |-> "folder",
                   createdAt |-> 1,
                   totalFiles |-> MaxItems,
                   completedFiles |-> 0,
                   items |-> [i \in 1..MaxItems |-> NewItem],
                   isFinished |-> FALSE,
                   cacheNameUsed |-> NoCache]
  IN /\ sessions = <<imported>>
     /\ storage = <<imported>>
     /\ activeSessionId = 1
     /\ nextSessionId = 2
     /\ isRunning = FALSE
     /\ autoDeleteCache = TRUE
     /\ concurrency = DefaultConcurrency
     /\ contextFile = FALSE
     /\ contextCache = ClearedCache
     /\ currentRunningCacheRef = NoCache
     /\ abortControllerRef = 0
     /\ runs = <<>>
     /\ remoteCaches = {}
     /\ pendingDeletes = {}
     /\ delCalls = [h \in Handles |-> 0]
     /\ EconomyInit
     /\ SimpleInit

\* the session is run without a context file and deleted from the history
\* list, before, during or after the run
DeleteNext ==
  \/ \E proceed \in BOOLEAN : StartRunNoFile(proceed)
  \/ \E r \in DOMAIN runs : ThrottleElapses(r)
  \/ \E r \in DOMAIN runs : \E k \in 1..MaxItems : \E text \in AnswerTexts :
       GenerateSucceeds(r, k, text)
  \/ \E r \in DOMAIN runs : \E k \in 1..MaxItems : \E msg \in ErrorTexts :
       GenerateFails(r, k, msg)
  \/ \E r \in DOMAIN runs : \E k \in 1..MaxItems : BackoffElapses(r, k)
  \/ handleStop
  \/ \E id \in 1..MaxSessions : handleDeleteSession(id)
  \/ handleClearAllHistory

DeleteSpec == DeleteInit /\ [][DeleteNext]_vars

\* the Economy panel alone: messages are sent, also while one is processed
EconomyNext ==
  \/ handleSend
  \/ \E s \in 1..MaxSends : \E ok \in BOOLEAN : CreateCacheFromContentReturns(s, ok)
  \/ \E s \in 1..MaxSends : \E ok \in BOOLEAN : StreamOpens(s, ok)
  \/ \E s \in 1..MaxSends : \E text \in AnswerTexts \cup {""} : StreamChunk(s, text)
  \/ \E s \in 1..MaxSends : StreamEnds(s)
  \/ \E s \in 1..MaxSends : StreamThrows(s)
  \/ \E call \in cacheDeletes : \E ok \in BOOLEAN : CacheDeleteSettles(call, ok)

EconomySpec == Init /\ [][EconomyNext]_vars

\* the simple bulk runner alone
SimpleNext ==
  \/ \E n \in 1..MaxQuestions : handleRun(n)
  \/ \E j \in 1..MaxQuestions : \E ok \in BOOLEAN :
       GenerateSingleContentReturns(j, ok)

SimpleSpec == Init /\ [][SimpleNext]_vars

\* ------------------------------------------------------------ properties

Over(rr) == rr.pc \in {"done", "failed", "declined"}

\* Generate calls of a run that have not returned yet
GenInFlight(rr) == Len(SelectSeq(rr.executing, IsGen))

LoadingCount(session) == CountStatus(session.items, {"loading"})

\* C1: in every session of the list, completedFiles is the number of items
\* whose status is success or error, and isFinished is
\* (completedFiles = totalFiles).
C1_CountsConsistent ==
  \A k \in DOMAIN sessions :
    /\ sessions[k].completedFiles = CountStatus(sessions[k].items, Terminal)
    /\ sessions[k].isFinished = (sessions[k].completedFiles = sessions[k].totalFiles)

\* C2: while a run with concurrency N >= 1 schedules a session, at most N
\* items of that session are loading, also when the session is run again
\* after a cancelled run.
C2_LoadingBounded ==
  \A r \in DOMAIN runs :
    (~Over(runs[r]) /\ ~runs[r].aborted /\ runs[r].conc >= 1)
      => \A k \in DOMAIN sessions :
           sessions[k].id = runs[r].cur.id
             => LoadingCount(sessions[k]) <= runs[r].conc

\* C3: an item becomes error only with its (MAX_RETRIES + 1)-th Generate
\* call of the run, never after fewer calls.
C3_ErrorAfterAllAttempts ==
  [][\A r \in DOMAIN runs :
       \A i \in DOMAIN runs[r].cur.items \cap DOMAIN runs'[r].cur.items :
         (/\ runs[r].cur.items[i].status # "error"
          /\ runs'[r].cur.items[i].status = "error")
           => \E k \in DOMAIN runs[r].executing :
                /\ runs[r].executing[k].item = i
                /\ runs[r].executing[k].tries = MAX_RETRIES + 1]_vars

\* C4: a run that creates its cache from a context file issues a Generate
\* call only after createCache has returned its handle and the warm-up
\* delay has elapsed.
C4_GenerateAfterWarmup ==
  \A r \in DOMAIN runs :
    (runs[r].hasFile /\ (runs[r].dispatched \/ GenInFlight(runs[r]) > 0))
      => (runs[r].warmedUp /\ runs[r].activeCacheName = r)

C4_Witness ==
  \E r \in DOMAIN runs :
    runs[r].hasFile /\ runs[r].warmedUp /\ GenInFlight(runs[r]) > 0

\* C5: DeleteCache is issued at most once per handle, and a run that created
\* a cache and drained normally with autoDeleteCache set has issued exactly
\* one DeleteCache for the handle it created.
C5_TeardownDeletesOwnHandle ==
  /\ \A h \in Handles : delCalls[h] <= 1
  /\ \A r \in DOMAIN runs :
       (/\ runs[r].pc = "done" /\ ~runs[r].aborted
        /\ runs[r].hasFile /\ runs[r].autoDel /\ runs[r].activeCacheName = r)
         => delCalls[r] = 1

\* C6: once its signal is aborted, a run issues no Generate call and moves
\* no item to loading, wherever the abort found its loop.
C6_NoDispatchAfterCancel ==
  [][\A r \in DOMAIN runs :
       runs[r].aborted
         => /\ GenInFlight(runs'[r]) <= GenInFlight(runs[r])
            /\ ~runs'[r].dispatched \/ runs[r].dispatched
            /\ \A i \in DOMAIN runs[r].cur.items \cap DOMAIN runs'[r].cur.items :
                 runs'[r].cur.items[i].status = "loading"
                   => runs[r].cur.items[i].status = "loading"]_vars

\* cancelled in the throttle delay: processItem was then called for the
\* ticket and returned at the abort check, another Generate still in flight
C6_Witness ==
  \E r \in DOMAIN runs :
    runs[r].aborted /\ runs[r].blocked /\ GenInFlight(runs[r]) > 0

\* C7: the items that were loading when the run was cancelled settle: once
\* every invocation has returned, no item of the session list is loading.
C7_CancelledInFlightSettles ==
  (\A r \in DOMAIN runs : Over(runs[r]))
    => \A k \in DOMAIN sessions : LoadingCount(sessions[k]) = 0

\* Generate calls in flight that reference handle h
OutstandingFor(h) ==
  Cardinality({<<r, k>> \in (1..MaxRuns) \X (1..MaxItems) :
                 /\ r \in DOMAIN runs
                 /\ runs[r].activeCacheName = h
                 /\ k \in DOMAIN runs[r].executing
                 /\ runs[r].executing[k].phase = "gen"})

C9_RejectedCreateIsFatal ==
  /\ [](\A r \in DOMAIN runs :
          runs[r].createRejected
            => /\ runs[r].pc = "failed"
               /\ ~runs[r].dispatched
               /\ runs[r].queue = <<>> /\ runs[r].held = NoTicket
               /\ runs[r].executing = <<>>)
  /\ [][\A r \in DOMAIN runs :
          (~runs[r].createRejected /\ runs'[r].createRejected)
            => (~isRunning' /\ sessions' = sessions /\ storage' = storage)]_vars

C9_Witness ==
  \E r \in DOMAIN runs :
    /\ runs[r].createRejected
    /\ \E k \in DOMAIN sessions :
         sessions[k].totalFiles = CountStatus(sessions[k].items, {"pending"})

\* C10: when a run that was not cancelled has returned, every item of its
\* session is success or error and the session is finished.
C10_RunCompletesAllItems ==
  \A r \in DOMAIN runs :
    (runs[r].pc = "done" /\ ~runs[r].aborted)
      => \A k \in DOMAIN sessions :
           sessions[k].id = runs[r].cur.id
             => /\ CountStatus(sessions[k].items, Terminal) = sessions[k].totalFiles
                /\ sessions[k].isFinished

\* C11: while a run is going on and has not been cancelled, completedFiles of
\* a session never decreases from one state of the session list to the next,
\* and isFinished never goes from true back to false.
C11_CompletedNeverDecreases ==
  [][\A k \in DOMAIN sessions \cap DOMAIN sessions' :
       (isRunning /\ isRunning' /\ sessions'[k].id = sessions[k].id)
         => /\ sessions'[k].completedFiles >= sessions[k].completedFiles
            /\ sessions[k].isFinished => sessions'[k].isFinished]_vars

\* C12: in every session of the list, a success item has an answer and no
\* error message, an error item has an error message and no answer, and a
\* pending or loading item has neither.
C12_AnswerXorError ==
  \A k \in DOMAIN sessions :
    \A i \in DOMAIN sessions[k].items :
      LET it == sessions[k].items[i] IN
        /\ it.status = "success" => (it.answer # "" /\ it.errorMsg = "")
        /\ it.status = "error" => (it.errorMsg # "" /\ it.answer = "")
        /\ it.status \in {"pending", "loading"} => (it.answer = "" /\ it.errorMsg = "")

\* C13: when a completion step of a run that is not cancelled makes an item
\* terminal, the stored copy of the session shows the item with that status.
C13_TerminalIsPersisted ==
  [][\A r \in DOMAIN runs :
       \A i \in DOMAIN runs[r].cur.items \cap DOMAIN runs'[r].cur.items :
         (/\ ~runs[r].aborted
          /\ runs[r].cur.items[i].status \notin Terminal
          /\ runs'[r].cur.items[i].status \in Terminal)
           => \E s \in DOMAIN storage' :
                /\ storage'[s].id = runs[r].cur.id
                /\ storage'[s].items[i].status = runs'[r].cur.items[i].status]_vars

StoredIds(list) == {list[k].id : k \in DOMAIN list}

\* C14: a stored session leaves the stored list only by handleDeleteSession
\* for that session or by handleClearAllHistory.
C14_NeverRemovedAutomatically ==
  [][\A id \in StoredIds(storage) :
       id \notin StoredIds(storage')
         => (handleDeleteSession(id) \/ handleClearAllHistory)]_vars

\* C15: when a cancelled run has ended, a DeleteCache call has been issued
\* for the handle it created, if that handle is still alive at the provider.
C15_CancelledRunLeavesNoCache ==
  \A r \in DOMAIN runs :
    (runs[r].aborted /\ Over(runs[r]) /\ r \in remoteCaches) => delCalls[r] >= 1

\* C16: the stop handler acts only while isRunning is set and clears it, so
\* a second stop (also one clicked while the first one's DeleteCache is in
\* flight) returns at its first statement: no state change, no DeleteCache.
C16_StopIsIdempotent ==
  /\ [][handleStop => (isRunning /\ ~isRunning')]_vars
  /\ [](\A call \in pendingDeletes :
          (call.cont = "stop" /\ abortControllerRef = call.r) => ~isRunning)

\* the first stop has acted and its DeleteCache has not returned
C16_Witness ==
  \E call \in pendingDeletes :
    /\ call.cont = "stop" /\ abortControllerRef = call.r
    /\ runs[call.r].aborted

\* C17: a run of a session is started only when no Generate call of an
\* earlier run of that session is outstanding.
C17_NoConcurrentRuns ==
  [][\A n \in DOMAIN runs' \ DOMAIN runs :
       runs'[n].pc # "declined"
         => \A r \in DOMAIN runs :
              runs[r].cur.id = sessions[ActiveSessionIndex].id
                => GenInFlight(runs[r]) = 0]_vars

\* the tickets a step of run r left in front of the scheduler: the one it
\* shifted off the queue (if any) followed by the queue
TakenThenQueue(r) ==
  (IF runs'[r].held # NoTicket /\ (runs[r].held = NoTicket \/ ThrottleElapses(r))
   THEN <<runs'[r].held>> ELSE <<>>) \o runs'[r].queue

\* C18: the queue is seeded in item order, a ticket is taken from the front
\* only, and a re-enqueued ticket goes behind the tickets already queued.
C18_DispatchIsFifo ==
  [][\A r \in DOMAIN runs' :
       ~runs'[r].aborted
         => IF r \notin DOMAIN runs \/ runs[r].pc = "warmup"
            THEN LET q == (IF runs'[r].held # NoTicket THEN <<runs'[r].held>>
                           ELSE <<>>) \o runs'[r].queue
                 IN \A a, b \in DOMAIN q : a < b => q[a].item < q[b].item
            ELSE LET q == TakenThenQueue(r)
                 IN /\ Len(q) >= Len(runs[r].queue)
                    /\ Len(q) <= Len(runs[r].queue) + 1
                    /\ SubSeq(q, 1, Len(runs[r].queue)) = runs[r].queue]_vars

\* a ticket that was queued when a failed one was re-enqueued has been
\* taken, the retried one waits behind it
C18_Witness ==
  \E r \in DOMAIN runs :
    /\ ~runs[r].aborted
    /\ runs[r].held # NoTicket /\ runs[r].held.retries = 0
    /\ \E k \in DOMAIN runs[r].queue :
         runs[r].queue[k].retries > 0 /\ runs[r].queue[k].item < runs[r].held.item

\* C19: an execution in its retry backoff does not occupy a slot: while the
\* scheduler waits with tickets in the queue, every slot holds a Generate call.
C19_BackoffHoldsNoSlot ==
  \A r \in DOMAIN runs :
    (~runs[r].aborted /\ runs[r].pc = "race" /\ runs[r].queue # <<>>)
      => GenInFlight(runs[r]) >= runs[r].conc

\* C20: the scheduler moves an item only pending -> loading, loading ->
\* success, loading -> pending (failure, retries left) and loading -> error
\* (failure, retries exhausted).
C20_ItemStateMachine ==
  [][\A r \in DOMAIN runs :
       \A i \in DOMAIN runs[r].cur.items \cap DOMAIN runs'[r].cur.items :
         LET from == runs[r].cur.items[i].status
             to == runs'[r].cur.items[i].status
         IN from # to
              => /\ <<from, to>> \in {<<"pending", "loading">>, <<"loading", "success">>,
                                      <<"loading", "pending">>, <<"loading", "error">>}
                 /\ to = "error"
                      => \E k \in DOMAIN runs[r].executing :
                           /\ runs[r].executing[k].item = i
                           /\ runs[r].executing[k].retries = MAX_RETRIES]_vars

\* C21: the delay before a ticket is re-enqueued is 2 ^ attempt * 2000 ms,
\* attempt being the number of failed tries before this failure: 2000 ms
\* after the first failure, ..., 32000 ms after the fifth.
C21_BackoffDelay ==
  \A r \in DOMAIN runs :
    \A k \in DOMAIN runs[r].executing :
      LET e == runs[r].executing[k] IN
        e.phase = "backoff" => e.delay = (2 ^ (e.tries - 1)) * 2000

\* C22: a run started with a context file while a cache name is recorded
\* first issues DeleteCache for that name and calls CreateCache only when
\* that call has returned; it goes on to CreateCache whether the deletion
\* succeeded or failed.
C22_OldCacheDeletedFirst ==
  /\ [][\A n \in DOMAIN runs' \ DOMAIN runs :
          (runs'[n].hasFile /\ contextCache.cacheName # NoCache)
            => /\ runs'[n].pc = "cleanup"
               /\ [h |-> contextCache.cacheName, cont |-> "cleanup", r |-> n]
                    \in pendingDeletes'
               /\ delCalls'[contextCache.cacheName] = delCalls[contextCache.cacheName] + 1]_vars
  /\ [][\A call \in pendingDeletes \ pendingDeletes' :
          call.cont = "cleanup" => /\ runs[call.r].pc = "cleanup"
                                   /\ runs'[call.r].pc = "creating"]_vars
  /\ [](\A call \in pendingDeletes :
          call.cont = "cleanup" => runs[call.r].pc = "cleanup")

\* the deletion of the old cache failed (the old handle is still alive, its
\* call has returned) and the run has created its cache and dispatches
C22_Witness ==
  \E r \in DOMAIN runs :
    /\ runs[r].hasFile /\ ~runs[r].aborted /\ runs[r].dispatched
    /\ runs[r].activeCacheName = r
    /\ runs[r].staleCacheName # NoCache
    /\ runs[r].staleCacheName \in remoteCaches
    /\ delCalls[runs[r].staleCacheName] = 1
    /\ \A call \in pendingDeletes : call.h # runs[r].staleCacheName

\* C23: when DeleteCache is called the local cache record is released at
\* once (status none, no cache name), and when the call returns, having
\* succeeded or thrown, no session, no stored session and no item changes,
\* isRunning is unchanged and no run fails.
C23_DeleteFailureIsSwallowed ==
  /\ [][(\E h \in Handles : delCalls'[h] > delCalls[h])
          => contextCache' = [status |-> "none", cacheName |-> NoCache]]_vars
  /\ [][(pendingDeletes \ pendingDeletes' # {})
          => /\ sessions' = sessions /\ storage' = storage
             /\ isRunning' = isRunning
             /\ contextCache'.cacheName = contextCache.cacheName
             /\ \A r \in DOMAIN runs :
                  /\ runs'[r].cur = runs[r].cur
                  /\ runs'[r].pc = "failed" => runs[r].pc = "failed"]_vars

\* a DeleteCache issued by the stop handler has thrown: the handle is alive
\* at the provider, the record is released, the items are as they were
C23_Witness ==
  \E h \in Handles :
    /\ delCalls[h] >= 1 /\ h \in remoteCaches
    /\ \A call \in pendingDeletes : call.h # h
    /\ contextCache = [status |-> "none", cacheName |-> NoCache]
    /\ \E r \in DOMAIN runs : runs[r].aborted /\ runs[r].activeCacheName = h

\* C24: the completion of a run that was not cancelled, with autoDeleteCache
\* off or with no cache in use, issues no DeleteCache and leaves the cache
\* record and the running-cache ref as they are.
C24_NoTeardownWithoutAutoDelete ==
  [][\A r \in DOMAIN runs' :
       (/\ runs'[r].pc = "done" /\ ~runs'[r].aborted
        /\ r \in DOMAIN runs => runs[r].pc # "done"
        /\ ~runs'[r].autoDel \/ runs'[r].activeCacheName = NoCache)
         => /\ delCalls' = delCalls
            /\ pendingDeletes' = pendingDeletes
            /\ contextCache' = contextCache
            /\ currentRunningCacheRef' = currentRunningCacheRef]_vars

\* a run with a context file and autoDeleteCache off has drained: its cache
\* is alive, recorded as active, and no DeleteCache was issued for it
C24_Witness ==
  \E r \in DOMAIN runs :
    /\ runs[r].pc = "done" /\ ~runs[r].aborted /\ runs[r].dispatched
    /\ runs[r].hasFile /\ ~runs[r].autoDel
    /\ contextCache = [status |-> "active", cacheName |-> r]
    /\ r \in remoteCaches /\ delCalls[r] = 0

\* the items for which a run holds a ticket right after seeding
SeededItems(rr) ==
  {rr.queue[k].item : k \in DOMAIN rr.queue}
    \cup (IF rr.held # NoTicket THEN {rr.held.item} ELSE {})

\* C25: when a run seeds its queue, every item of the session that is not
\* terminal (pending or loading) gets a ticket, also the items a cancelled
\* run left loading.
C25_SeedsAllNonTerminalItems ==
  [][\A r \in DOMAIN runs' :
       (/\ ~runs'[r].aborted
        /\ runs'[r].pc \in {"throttle", "race", "joinAll", "done"}
        /\ r \notin DOMAIN runs \/ runs[r].pc = "warmup")
         => \A i \in DOMAIN runs'[r].cur.items :
              runs'[r].cur.items[i].status \in {"pending", "loading"}
                => i \in SeededItems(runs'[r])]_vars

\* Generate calls of a run in flight for item i
GenFor(rr, i) ==
  Cardinality({k \in DOMAIN rr.executing :
                 rr.executing[k].phase = "gen" /\ rr.executing[k].item = i})

\* C26: once an item of a session of the list is success, its status, answer
\* and tokenUsage stay as they are and no run issues a Generate call for it.
C26_SuccessIsImmutable ==
  [][\A k \in DOMAIN sessions :
       \A i \in DOMAIN sessions[k].items :
         sessions[k].items[i].status = "success"
           => /\ \A j \in DOMAIN sessions' :
                   sessions'[j].id = sessions[k].id
                     => sessions'[j].items[i] = sessions[k].items[i]
              /\ \A r \in DOMAIN runs :
                   runs[r].cur.id = sessions[k].id
                     => GenFor(runs'[r], i) <= GenFor(runs[r], i)]_vars

\* C27: every Generate call of a run passes the handle prepared for the run
\* (the created one with a context file, else the one active at the click,
\* else none), and that handle does not change once the run dispatches,
\* whatever happens to the cache record.
C27_SameHandleForAllGenerate ==
  /\ [](\A r \in DOMAIN runs :
          \A k \in DOMAIN runs[r].executing :
            runs[r].executing[k].phase = "gen"
              => /\ runs[r].executing[k].cache = runs[r].activeCacheName
                 /\ runs[r].hasFile => runs[r].activeCacheName = r)
  /\ [][\A r \in DOMAIN runs :
          (runs[r].dispatched /\ runs'[r].pc # "done")
            => runs'[r].activeCacheName = runs[r].activeCacheName]_vars

\* a Generate call is in flight while the cache record names another handle
\* than the one the run passes
C27_Witness ==
  \E r \in DOMAIN runs :
    /\ ~runs[r].aborted /\ GenInFlight(runs[r]) > 0
    /\ contextCache.cacheName # runs[r].activeCacheName

\* C28: a completion of a run that is not cancelled changes the completed
\* item only, keeps what earlier completions wrote to the other items,
\* counts all terminal items in completedFiles, and publishes exactly that
\* session state, in whatever order the executions in flight complete.
C28_NoLostUpdates ==
  [][\A r \in DOMAIN runs :
       \A k \in DOMAIN runs[r].executing :
         (/\ ~runs[r].aborted
          /\ \/ \E text \in AnswerTexts : GenerateSucceeds(r, k, text)
             \/ \E msg \in ErrorTexts : GenerateFails(r, k, msg))
           => LET i == runs[r].executing[k].item
                  new == runs'[r].cur
              IN /\ \A j \in DOMAIN new.items \ {i} :
                      new.items[j] = runs[r].cur.items[j]
                 /\ new.items[i].status \in Terminal
                 /\ new.items[i].status = "success" => new.items[i].answer # ""
                 /\ new.items[i].status = "error" => new.items[i].errorMsg # ""
                 /\ new.completedFiles = CountStatus(new.items, Terminal)
                 /\ new.isFinished = (new.completedFiles = new.totalFiles)
                 /\ \A s \in DOMAIN sessions' :
                      sessions'[s].id = new.id => sessions'[s] = new]_vars

\* two executions were in flight together and the later item completed
\* first: its result is in the list while the earlier item is still loading
C28_Witness ==
  \E r \in DOMAIN runs :
    /\ ~runs[r].aborted /\ runs[r].conc = 2 /\ GenFor(runs[r], 1) = 1
    /\ \E s \in DOMAIN sessions :
         /\ sessions[s].id = runs[r].cur.id
         /\ Len(sessions[s].items) = 2
         /\ sessions[s].items[1].status = "loading"
         /\ sessions[s].items[2].status \in Terminal
         /\ sessions[s].completedFiles = 1

\* C29: the concurrency setting is a positive integer whatever the input
\* delivers, so no run waits on an empty pool with tickets in its queue.
C29_ConcurrencyPositive ==
  /\ concurrency >= 1
  /\ \A r \in DOMAIN runs :
       (~runs[r].aborted /\ runs[r].pc = "race") => runs[r].executing # <<>>

\* the updates processItem passes to updateItemInSession
SchedulerUpdates ==
  {[status |-> "loading"]}
    \cup {[status |-> "success", answer |-> t, tokenUsage |-> TRUE] : t \in AnswerTexts}
    \cup {[status |-> "error", errorMsg |-> m] : m \in ErrorTexts}

\* C30: for every session of the list, every item id (also one that matches
\* no item) and every update of the scheduler, updateItemInSession leaves
\* the other items, the number and order of the items, the question of the
\* updated item and the session's id, name, createdAt, totalFiles and
\* cacheNameUsed as they are.
C30_UpdateChangesOneItem ==
  \A k \in DOMAIN sessions :
    \A itemId \in 0..(MaxItems + 1) :
      \A updates \in SchedulerUpdates :
        LET old == sessions[k]
            new == updateItemInSession(old, itemId, updates)
        IN /\ DOMAIN new.items = DOMAIN old.items
           /\ \A j \in DOMAIN old.items : j # itemId => new.items[j] = old.items[j]
           /\ itemId \in DOMAIN old.items
                => new.items[itemId].question = old.items[itemId].question
           /\ itemId \notin DOMAIN old.items => new.items = old.items
           /\ new.id = old.id /\ new.name = old.name
           /\ new.createdAt = old.createdAt
           /\ new.totalFiles = old.totalFiles
           /\ new.cacheNameUsed = old.cacheNameUsed

\* a session of two items of which the scheduler has updated the first one
\* twice (loading, success) and the second one not at all
C30_Witness ==
  \E k \in DOMAIN sessions :
    /\ Len(sessions[k].items) = 2
    /\ sessions[k].items[1].status = "success" /\ sessions[k].items[1].tokenUsage
    /\ sessions[k].items[2] = NewItem

\* the places of a run where a ticket for item i is: the queue, the throttle
\* delay, an execution that has not settled (Generate call or backoff)
TicketsFor(rr, i) ==
  Cardinality({k \in DOMAIN rr.queue : rr.queue[k].item = i})
    + (IF rr.held # NoTicket /\ rr.held.item = i THEN 1 ELSE 0)
    + Cardinality({k \in DOMAIN rr.executing :
                     /\ rr.executing[k].item = i
                     /\ rr.executing[k].phase \in {"gen", "backoff"}})

\* C31: in a run that is not cancelled every item has at most one ticket,
\* in one place; so at most one Generate call is outstanding for an item,
\* and the pool never holds more than `concurrency` executions (none at
\* all when the setting is not positive).
C31_OneTicketPerItem ==
  \A r \in DOMAIN runs :
    ~runs[r].aborted
      => /\ \A i \in 1..MaxItems :
              /\ TicketsFor(runs[r], i) <= 1
              /\ GenFor(runs[r], i) <= 1
         /\ Len(runs[r].executing) <= (IF runs[r].conc > 0 THEN runs[r].conc ELSE 0)

\* one ticket waits in the queue while the other one is in its backoff, and
\* one has been retried: each is in one place
C31_Witness ==
  \E r \in DOMAIN runs :
    /\ ~runs[r].aborted /\ runs[r].conc >= 1
    /\ \E i, j \in 1..MaxItems :
         /\ i # j
         /\ \E k \in DOMAIN runs[r].queue : runs[r].queue[k].item = i
         /\ \E k \in DOMAIN runs[r].executing :
              /\ runs[r].executing[k].item = j
              /\ runs[r].executing[k].phase = "backoff"
              /\ runs[r].executing[k].retries >= 2

\* C32: a session that was created and is absent from the stored list (it
\* was deleted) does not come back into the stored list.
C32_DeletedStaysDeleted ==
  [][\A id \in 1..(nextSessionId - 1) :
       id \notin StoredIds(storage) => id \notin StoredIds(storage')]_vars

C33_CacheDeletedExactlyOnce ==
  \A s \in DOMAIN sends :
    (sends[s].pc = "done" /\ sends[s].cacheName # 0)
      => cacheDelCalls[sends[s].cacheName] = 1

\* C35: at most BATCH_SIZE Generate calls are outstanding; a question of a
\* later batch has left "pending" only if every question of the batch before
\* it is success or error; and when handleRun has finished every question is
\* success or error, progress is 100 and isRunning is false.
C35_BatchesOfFive ==
  /\ Cardinality(outstanding) <= BATCH_SIZE
  /\ \A j \in DOMAIN results :
       (j > BATCH_SIZE /\ results[j] # "pending")
         => \A k \in DOMAIN results :
              (k - 1) \div BATCH_SIZE + 1 = (j - 1) \div BATCH_SIZE
                => results[k] \in Terminal
  /\ (results # <<>> /\ (~simpleIsRunning \/ batchStart >= Len(results)))
       => /\ \A j \in DOMAIN results : results[j] \in Terminal
          /\ progress = 100
          /\ ~simpleIsRunning
          /\ outstanding = {}

\* the last question of the third batch is in flight, the ten before it are
\* settled, by failure too
C35_Witness ==
  /\ Len(results) = 2 * BATCH_SIZE + 1
  /\ outstanding = {2 * BATCH_SIZE + 1}
  /\ results[2 * BATCH_SIZE + 1] = "loading"
  /\ \E k \in 1..BATCH_SIZE : results[k] = "error"
  /\ simpleIsRunning

====
